---- MODULE Spec2Model ----
(***************************************************************************)
(* AutoMLAlgorithm (evalml/automl/automl_algorithm/automl_algorithm.py):   *)
(* the base class of the AutoML search algorithms.  The state is one       *)
(* AutoMLAlgorithm object; the actions are its methods and the writes the  *)
(* surrounding search makes to its attributes.                             *)
(*                                                                         *)
(* Python values are modelled as follows.  A str is a TLA+ string (Len,    *)
(* SubSeq and \o act on it character by character).  A dict is the         *)
(* sequence of its items [k |-> key, v |-> value] in insertion order.  A   *)
(* value stored in a dict is tagged: Leaf(s) for anything that is not a    *)
(* dict (a range, a number, a class, None), DictV(d) for a dict.           *)
(***************************************************************************)
EXTENDS Integers, Sequences, FiniteSets, TLC

VARIABLES
    allowed_pipelines,   \* self.allowed_pipelines
    random_seed,         \* self.random_seed
    max_iterations,      \* self.max_iterations: <<>> is None, <<n>> is n
    n_jobs,              \* self.n_jobs
    tuners,              \* self._tuners: dict name -> tuner
    best_pipeline_info,  \* self._best_pipeline_info: dict name -> entry
    text_in_ensembling,  \* self.text_in_ensembling
    selected_cols,       \* self._selected_cols
    pipeline_number,     \* self._pipeline_number
    batch_number,        \* self._batch_number
    call,                \* the last method call on the object and its arguments
    result,              \* what that call raised and what it returned
    calls_next_batch,    \* history: number of next_batch calls made
    sum_batches          \* history: sum of the sizes of the batches returned

vars == <<allowed_pipelines, random_seed, max_iterations, n_jobs, tuners,
          best_pipeline_info, text_in_ensembling, selected_cols,
          pipeline_number, batch_number, call, result, calls_next_batch,
          sum_batches>>

config == <<allowed_pipelines, random_seed, max_iterations, n_jobs>>

(***************************************************************************)
(* Bounds of the model.                                                    *)
(***************************************************************************)
MaxLoad == 4    \* observations, batches and attribute writes in a run
MaxBatch == 1   \* largest batch next_batch returns

(***************************************************************************)
(* Python dict and str.                                                    *)
(***************************************************************************)
Leaf(s) == [kind |-> "leaf", val |-> s]
DictV(d) == [kind |-> "dict", items |-> d]
Item(key, val) == [k |-> key, v |-> val]
None == Leaf("None")

Keys(d) == {d[i].k : i \in DOMAIN d}
Has(d, key) == \E i \in DOMAIN d : d[i].k = key
Index(d, key) == CHOOSE i \in DOMAIN d : d[i].k = key
Get(d, key) == d[Index(d, key)].v
\* d[key] = val
Put(d, key, val) ==
    IF Has(d, key) THEN [d EXCEPT ![Index(d, key)].v = val]
    ELSE Append(d, Item(key, val))
\* list(d.values())
Values(d) == [i \in DOMAIN d |-> d[i].v]

\* s.startswith(prefix)
StartsWith(s, prefix) ==
    Len(s) >= Len(prefix) /\ SubSeq(s, 1, Len(prefix)) = prefix

\* s.replace(old, new), old not empty: every non-overlapping occurrence,
\* scanning from the left
RECURSIVE Replace(_, _, _)
Replace(s, old, new) ==
    IF Len(s) < Len(old) THEN s
    ELSE IF SubSeq(s, 1, Len(old)) = old
         THEN new \o Replace(SubSeq(s, Len(old) + 1, Len(s)), old, new)
         ELSE SubSeq(s, 1, 1) \o Replace(SubSeq(s, 2, Len(s)), old, new)

(***************************************************************************)
(* The pipelines the constructor is given.  A pipeline class is            *)
(* [name, model_family, ranges], ranges being what its                     *)
(* get_hyperparameter_ranges(custom_hyperparameters) returns.              *)
(***************************************************************************)
ENSEMBLE == "ensemble"

RangesRF ==
    << Item("Imputer", DictV(<< Item("strategy", Leaf("cat1")) >>)),
       Item("RF", DictV(<< Item("depth", Leaf("int1")),
                           Item("w", DictV(<< Item("lo", Leaf("r0")) >>)) >>)) >>
RangesRF2 ==
    << Item("RF", DictV(<< Item("depth", Leaf("int2")) >>)) >>
RangesLIN ==
    << Item("Select Columns Transformer", DictV(<<>>)),
       Item("LIN", DictV(<< Item("C", Leaf("r1")) >>)) >>
\* StackedEnsembleBase.hyperparameter_ranges under the component's name
RangesENS ==
    << Item("SE", DictV(<< Item("final_estimator", Leaf("cat2")),
                           Item("a", DictV(<< Item("x", Leaf("r1")),
                                              Item("y", Leaf("r2")) >>)),
                           Item("ab", DictV(<< Item("x", Leaf("r3")) >>)) >>)) >>
\* nested one level deeper
RangesNested ==
    << Item("A", DictV(<< Item("x", Leaf("range1")),
                          Item("y", DictV(<< Item("y1", Leaf("range2")),
                                             Item("y2", DictV(<< Item("z", Leaf("range3")) >>)) >>)) >>)) >>
\* two parameters flatten to one key
RangesClash ==
    << Item("SE", DictV(<< Item("a", DictV(<< Item("x", Leaf("r1")) >>)),
                           Item("a_x", Leaf("r2")),
                           Item("b_y", Leaf("r3")),
                           Item("b", DictV(<< Item("y", Leaf("r4")) >>)) >>)) >>

PipelineClass(n, f, r) == [name |-> n, model_family |-> f, ranges |-> r]
ClsRF == PipelineClass("RF Pipeline", "random_forest", RangesRF)
ClsRF2 == PipelineClass("RF Pipeline", "random_forest", RangesRF2)
ClsLIN == PipelineClass("LIN Pipeline", "linear_model", RangesLIN)
ClsENS == PipelineClass("Stacked Ensemble", ENSEMBLE, RangesENS)
ClsNested == PipelineClass("Nested Ensemble", ENSEMBLE, RangesNested)
ClsClash == PipelineClass("Clash Ensemble", ENSEMBLE, RangesClash)

\* the arguments of the constructor calls the model starts from
ConstructorArgs ==
    { [allowed |-> <<ClsRF, ClsLIN, ClsENS>>, max_iterations |-> <<>>,
       random_seed |-> 0, n_jobs |-> -1],
      [allowed |-> <<ClsRF, ClsRF2>>, max_iterations |-> <<MaxBatch>>,
       random_seed |-> 7, n_jobs |-> 4],
      [allowed |-> <<>>, max_iterations |-> <<0>>,
       random_seed |-> 0, n_jobs |-> 1],
      [allowed |-> <<ClsNested, ClsClash>>, max_iterations |-> <<>>,
       random_seed |-> 0, n_jobs |-> -1] }

(***************************************************************************)
(* __init__                                                                *)
(***************************************************************************)
\* the loop below with the separator of the flattened key left out
RECURSIVE FlattenRangeNoSeparator(_, _, _)
FlattenRangeNoSeparator(flattened, parameter, items) ==
    IF items = <<>> THEN flattened
    ELSE FlattenRangeNoSeparator(Put(flattened, parameter \o Head(items).k, Head(items).v),
                                 parameter, Tail(items))

\* for key, value in range.items(): flattened[f"{parameter}_{key}"] = value
RECURSIVE FlattenRange(_, _, _)
FlattenRange(flattened, parameter, items) ==
    IF items = <<>> THEN flattened
    ELSE FlattenRange(Put(flattened, parameter \o "_" \o Head(items).k, Head(items).v),
                      parameter, Tail(items))

\* for parameter, range in component_hyperparameters.items(): ...
RECURSIVE FlattenComponent(_, _)
FlattenComponent(flattened, items) ==
    IF items = <<>> THEN flattened
    ELSE FlattenComponent(
             IF Head(items).v.kind = "dict"
             THEN FlattenRange(flattened, Head(items).k, Head(items).v.items)
             ELSE Put(flattened, Head(items).k, Head(items).v),
             Tail(items))

\* for component, component_hyperparameters in pipeline_hyperparameters.items(): ...
RECURSIVE FlattenPipeline(_, _)
FlattenPipeline(flattened, items) ==
    IF items = <<>> THEN flattened
    ELSE FlattenPipeline(
             Put(flattened, Head(items).k,
                 DictV(FlattenComponent(<<>>, Head(items).v.items))),
             Tail(items))

\* the range mapping the pipeline's Tuner is constructed with
PipelineHyperparameters(pipeline) ==
    IF pipeline.model_family = ENSEMBLE
    THEN FlattenPipeline(<<>>, pipeline.ranges)
    ELSE pipeline.ranges

\* self._tuner_class(pipeline_hyperparameters, random_seed=self.random_seed)
NewTuner(ranges, seed) ==
    [ranges |-> ranges, random_seed |-> seed, history |-> <<>>]

\* for pipeline in self.allowed_pipelines: self._tuners[pipeline.name] = ...
RECURSIVE TunerLoop(_, _, _)
TunerLoop(ts, pipelines, seed) ==
    IF pipelines = <<>> THEN ts
    ELSE TunerLoop(Put(ts, Head(pipelines).name,
                       NewTuner(PipelineHyperparameters(Head(pipelines)), seed)),
                   Tail(pipelines), seed)

\* the loop started after the first pipeline
MakeTunersSkipFirst(pipelines, seed) ==
    TunerLoop(<<>>, IF pipelines = <<>> THEN <<>> ELSE Tail(pipelines), seed)

\* self._tuners = {} and the loop
MakeTuners(pipelines, seed) == TunerLoop(<<>>, pipelines, seed)

NoCall == [op |-> "__init__"]
NoResult == [raised |-> "None", ret |-> None]

\* the counters started one too high
InitialCountOne == 0 + 1

\* self._pipeline_number = 0; self._batch_number = 0
InitialCount == 0

Init ==
    \E args \in ConstructorArgs :
        /\ random_seed = args.random_seed
        /\ allowed_pipelines = args.allowed
        /\ max_iterations = args.max_iterations
        /\ tuners = MakeTuners(args.allowed, args.random_seed)
        /\ best_pipeline_info = <<>>
        /\ text_in_ensembling = FALSE
        /\ n_jobs = args.n_jobs
        /\ selected_cols = None
        /\ pipeline_number = InitialCount
        /\ batch_number = InitialCount
        /\ call = NoCall
        /\ result = NoResult
        /\ calls_next_batch = 0
        /\ sum_batches = 0

(***************************************************************************)
(* Pipeline instances.  component_graph.component_instances is the set of  *)
(* the instance's component names; trained tells a fitted instance from    *)
(* the unfitted one pipeline.new returns.                                  *)
(***************************************************************************)
SelectColumns == "Select Columns Transformer"

Pipeline(n, comps, params) ==
    [name |-> n, problem_type |-> "binary", component_instances |-> comps,
     parameters |-> params, random_seed |-> 0, trained |-> TRUE]

PipeRF ==
    Pipeline("RF Pipeline", {"Imputer", "RF"},
             << Item("RF", DictV(<< Item("depth", Leaf("3")) >>)) >>)
PipeLIN ==
    Pipeline("LIN Pipeline", {SelectColumns, "LIN"},
             << Item(SelectColumns, DictV(<< Item("columns", Leaf("cols0")),
                                             Item("extra", Leaf("1")) >>)),
                Item("LIN", DictV(<< Item("C", Leaf("2")) >>)) >>)
PipeUnknown ==
    Pipeline("Unknown Pipeline", {"RF"},
             << Item("RF", DictV(<< Item("depth", Leaf("4")) >>)) >>)

\* the pipelines add_result is called with
Pipelines == {PipeRF, PipeLIN, PipeUnknown}
\* the pipelines a search keeps as the best of their architecture
BasePipelines == {PipeRF, PipeLIN}
Scores == {1, 2}

\* pipeline.new(parameters=..., random_seed=...)
New(pipeline, params, seed) ==
    [pipeline EXCEPT !.parameters = params, !.random_seed = seed,
                     !.trained = FALSE]

(***************************************************************************)
(* Tuner.add and the observations the tuners hold                          *)
(***************************************************************************)
\* tuner.add(pipeline_parameters, score)
TunerAdd(tuner, params, score) ==
    [tuner EXCEPT !.history = Append(@, <<params, score>>)]

RECURSIVE SumHistory(_)
SumHistory(ts) ==
    IF ts = <<>> THEN 0 ELSE Len(Head(ts).v.history) + SumHistory(Tail(ts))

\* what a run has done so far; the actions that add to it stop at MaxLoad
Load ==
    SumHistory(tuners) + batch_number + Len(best_pipeline_info)
    + (IF selected_cols = None THEN 0 ELSE 1)
    + (IF text_in_ensembling THEN 1 ELSE 0)

(***************************************************************************)
(* add_result(score_to_minimize, pipeline, trained_pipeline_results); the  *)
(* method does not read its third argument.                                *)
(***************************************************************************)
Raised(e) == [raised |-> e, ret |-> None]
Returned(v) == [raised |-> "None", ret |-> v]

\* the observation recorded in the first tuner instead of the pipeline's
ObserveFirst(ts, pipeline, score) ==
    [ts EXCEPT ![1].v = TunerAdd(@, pipeline.parameters, score)]

\* self._tuners[pipeline.name].add(pipeline.parameters, score_to_minimize)
Observe(ts, pipeline, score) ==
    Put(ts, pipeline.name,
        TunerAdd(Get(ts, pipeline.name), pipeline.parameters, score))

\* add_result without its check, the tuner of an unknown pipeline made on
\* demand
add_result_unchecked(score_to_minimize, pipeline) ==
    /\ Load < MaxLoad
    /\ call' = [op |-> "add_result", score |-> score_to_minimize,
                pipeline |-> pipeline]
    /\ tuners' = Observe(IF Has(tuners, pipeline.name) THEN tuners
                         ELSE Put(tuners, pipeline.name, NewTuner(<<>>, random_seed)),
                         pipeline, score_to_minimize)
    /\ result' = Returned(None)
    /\ UNCHANGED <<config, best_pipeline_info, text_in_ensembling,
                   selected_cols, pipeline_number, batch_number,
                   calls_next_batch, sum_batches>>

add_result(score_to_minimize, pipeline) ==
    /\ Has(tuners, pipeline.name) => Load < MaxLoad
    /\ call' = [op |-> "add_result", score |-> score_to_minimize,
                pipeline |-> pipeline]
    /\ IF ~Has(tuners, pipeline.name)
       THEN /\ result' = Raised("PipelineNotFoundError")
            /\ tuners' = tuners
       ELSE /\ tuners' = Observe(tuners, pipeline, score_to_minimize)
            /\ result' = Returned(None)
    /\ UNCHANGED <<config, best_pipeline_info, text_in_ensembling,
                   selected_cols, pipeline_number, batch_number,
                   calls_next_batch, sum_batches>>

(***************************************************************************)
(* next_batch(): abstract in this class.  The batch is whatever the        *)
(* subclass chooses, here its size; the counters advance as the subclasses *)
(* are specified to advance them.                                          *)
(***************************************************************************)
BatchSize(requested) ==
    IF max_iterations # <<>> /\ pipeline_number + requested > max_iterations[1]
    THEN 0
    ELSE requested

next_batch(requested) ==
    /\ Load < MaxLoad
    /\ call' = [op |-> "next_batch", requested |-> requested]
    /\ result' = Returned([size |-> BatchSize(requested)])
    /\ pipeline_number' = pipeline_number + BatchSize(requested)
    /\ batch_number' = batch_number + 1
    /\ calls_next_batch' = calls_next_batch + 1
    /\ sum_batches' = sum_batches + BatchSize(requested)
    /\ UNCHANGED <<config, tuners, best_pipeline_info, text_in_ensembling,
                   selected_cols>>

(***************************************************************************)
(* The properties pipeline_number and batch_number                         *)
(***************************************************************************)
\* batch_number returning the other counter
BatchNumberSwapped == pipeline_number

\* return self._pipeline_number
PipelineNumber == pipeline_number

\* return self._batch_number
BatchNumber == batch_number

(***************************************************************************)
(* Writes made by the subclasses and by the search that owns the object    *)
(***************************************************************************)
EnvCall == [op |-> "env"]

\* the subclass's add_result keeps the best pipeline of each architecture
update_best(score, pipeline) ==
    /\ Has(tuners, pipeline.name)
    /\ Has(best_pipeline_info, pipeline.name) \/ Load < MaxLoad
    /\ IF Has(best_pipeline_info, pipeline.name)
       THEN score < Get(best_pipeline_info, pipeline.name).score
       ELSE TRUE
    /\ best_pipeline_info' =
           Put(best_pipeline_info, pipeline.name,
               [pipeline |-> pipeline, parameters |-> pipeline.parameters,
                score |-> score])
    /\ call' = EnvCall
    /\ result' = NoResult
    /\ UNCHANGED <<config, tuners, text_in_ensembling, selected_cols,
                   pipeline_number, batch_number, calls_next_batch,
                   sum_batches>>

\* the search sets _selected_cols once
set_selected_cols(cols) ==
    /\ selected_cols = None
    /\ Load < MaxLoad
    /\ selected_cols' = cols
    /\ call' = EnvCall
    /\ result' = NoResult
    /\ UNCHANGED <<config, tuners, best_pipeline_info, text_in_ensembling,
                   pipeline_number, batch_number, calls_next_batch,
                   sum_batches>>

\* the subclass sets text_in_ensembling when a pipeline has text features
set_text_in_ensembling ==
    /\ ~text_in_ensembling
    /\ Load < MaxLoad
    /\ text_in_ensembling' = TRUE
    /\ call' = EnvCall
    /\ result' = NoResult
    /\ UNCHANGED <<config, tuners, best_pipeline_info, selected_cols,
                   pipeline_number, batch_number, calls_next_batch,
                   sum_batches>>

(***************************************************************************)
(* _transform_parameters(pipeline, proposed_parameters): abstract in this  *)
(* class.  What a subclass returns is either the dict it was given, or a   *)
(* new dict: the parameters with the estimator's n_jobs resolved.          *)
(***************************************************************************)
TransformModes == {"same", "resolved"}

transform_parameters(pipeline, proposed_parameters, mode) ==
    IF mode = "resolved"
    THEN Put(proposed_parameters, "Estimator",
             DictV(<< Item("n_jobs", Leaf("resolved")) >>))
    ELSE proposed_parameters

(***************************************************************************)
(* _create_ensemble(proposed_parameters)                                   *)
(***************************************************************************)
\* the ensemble given the object's n_jobs whatever the flag
NJobsOfCore == n_jobs

\* n_jobs_ensemble = 1 if self.text_in_ensembling else self.n_jobs
NJobsEnsemble == IF text_in_ensembling THEN 1 ELSE n_jobs

\* the columns injected only where the parameters name none
InjectColumnsIfAbsent(pipeline, pipeline_params) ==
    IF SelectColumns \in pipeline.component_instances
       /\ ~Has(pipeline_params, SelectColumns)
    THEN Put(pipeline_params, SelectColumns,
             DictV(<< Item("columns", selected_cols) >>))
    ELSE pipeline_params

\* pipeline_params.update({"Select Columns Transformer": {"columns": ...}})
\* when the pipeline has the component
InjectColumns(pipeline, pipeline_params) ==
    IF SelectColumns \in pipeline.component_instances
    THEN Put(pipeline_params, SelectColumns,
             DictV(<< Item("columns", selected_cols) >>))
    ELSE pipeline_params

\* for pipeline_dict in best_pipelines: ...  The state of the loop is the
\* list input_pipelines and _best_pipeline_info, whose stored parameters
\* dict is the one updated when _transform_parameters returned it.
RECURSIVE BaseLoop(_, _, _)
BaseLoop(i, acc, mode) ==
    IF i > Len(acc.best) THEN acc
    ELSE LET pipeline_dict == acc.best[i].v
             pipeline == pipeline_dict.pipeline
             pipeline_params ==
                 InjectColumns(pipeline,
                     transform_parameters(pipeline, pipeline_dict.parameters, mode))
         IN BaseLoop(i + 1,
                [input_pipelines |->
                     Append(acc.input_pipelines,
                            New(pipeline, pipeline_params, random_seed)),
                 best |->
                     IF mode = "same"
                     THEN [acc.best EXCEPT ![i].v.parameters = pipeline_params]
                     ELSE acc.best],
                mode)

\* for key, value in ensembler_parameters.items():
\*     if key.startswith(final_estimator.name): ...
RECURSIVE FinalEstimatorParameters(_, _, _)
FinalEstimatorParameters(params, items, name) ==
    IF items = <<>> THEN params
    ELSE FinalEstimatorParameters(
             IF StartsWith(Head(items).k, name)
             THEN Put(params, Replace(Head(items).k, name \o "_", ""), Head(items).v)
             ELSE params,
             Tail(items), name)

\* _make_stacked_ensemble_pipeline(...): the ensemble is what it was built from
Ensemble(input_pipelines, ensembler_parameters) ==
    LET final_estimator == Get(ensembler_parameters, "final_estimator")
    IN [input_pipelines |-> input_pipelines,
        problem_type |-> Values(best_pipeline_info)[1].pipeline.problem_type,
        final_estimator |-> final_estimator,
        final_estimator_parameters |->
            FinalEstimatorParameters(<<>>, ensembler_parameters, final_estimator.val),
        random_seed |-> random_seed,
        n_jobs |-> NJobsEnsemble]

\* the proposals _create_ensemble is called with; the final estimator is a
\* class, named by its name
EnsemblerProposal(final, items) ==
    << Item("SE", DictV(<< Item("final_estimator", Leaf(final)) >> \o items)) >>

Proposals ==
    { EnsemblerProposal("a", << Item("a_x", Leaf("5")), Item("b_x", Leaf("9")) >>),
      EnsemblerProposal("a", << Item("a_x", Leaf("5")), Item("ab_x", Leaf("9")) >>),
      EnsemblerProposal("b", << Item("a_x", Leaf("5")), Item("b_b_y", Leaf("7")) >>),
      <<>> }

\* what a call of _create_ensemble did besides raising or returning: made
\* is the number of pipeline.new calls, built tells whether
\* _make_stacked_ensemble_pipeline was called
Outcome(r, made, built) ==
    [raised |-> r.raised, ret |-> r.ret, made |-> made, built |-> built]

\* the method from its loop on, _best_pipeline_info not being empty
build_ensemble(proposed_parameters, mode) ==
    LET loop == BaseLoop(1, [input_pipelines |-> <<>>, best |-> best_pipeline_info], mode)
        made == Len(loop.input_pipelines)
    IN /\ best_pipeline_info' = loop.best
       /\ IF proposed_parameters = <<>>
          THEN \* list(proposed_parameters.values())[0]
               result' = Outcome(Raised("IndexError"), made, FALSE)
          ELSE IF ~Has(Values(proposed_parameters)[1].items, "final_estimator")
          THEN result' = Outcome(Raised("KeyError"), made, FALSE)
          ELSE result' = Outcome(Returned(Ensemble(loop.input_pipelines,
                                     Values(proposed_parameters)[1].items)),
                                 made, TRUE)

\* _create_ensemble taking the problem type only when there is a best
\* pipeline, and building an ensemble of no pipelines when there is none
create_ensemble_of_none(proposed_parameters, mode) ==
    /\ call' = [op |-> "_create_ensemble",
                proposed_parameters |-> proposed_parameters, mode |-> mode]
    /\ IF best_pipeline_info = <<>>
       THEN /\ result' = Outcome(Returned([input_pipelines |-> <<>>,
                                           problem_type |-> "None",
                                           random_seed |-> random_seed,
                                           n_jobs |-> NJobsEnsemble]),
                                 0, TRUE)
            /\ best_pipeline_info' = best_pipeline_info
       ELSE build_ensemble(proposed_parameters, mode)
    /\ UNCHANGED <<config, tuners, text_in_ensembling, selected_cols,
                   pipeline_number, batch_number, calls_next_batch,
                   sum_batches>>

create_ensemble(proposed_parameters, mode) ==
    /\ call' = [op |-> "_create_ensemble",
                proposed_parameters |-> proposed_parameters, mode |-> mode]
    /\ IF best_pipeline_info = <<>>
       THEN \* best_pipelines[0]
            /\ result' = Outcome(Raised("IndexError"), 0, FALSE)
            /\ best_pipeline_info' = best_pipeline_info
       ELSE build_ensemble(proposed_parameters, mode)
    /\ UNCHANGED <<config, tuners, text_in_ensembling, selected_cols,
                   pipeline_number, batch_number, calls_next_batch,
                   sum_batches>>

Next ==
    \/ \E s \in Scores, p \in Pipelines : add_result(s, p)
    \/ \E pp \in Proposals, m \in TransformModes : create_ensemble(pp, m)
    \/ \E k \in 0..MaxBatch : next_batch(k)
    \/ \E s \in Scores, p \in BasePipelines : update_best(s, p)
    \/ set_selected_cols(Leaf("cols1"))
    \/ set_text_in_ensembling

Spec == Init /\ [][Next]_vars

(***************************************************************************)
(* Properties                                                              *)
(***************************************************************************)
AllowedNames == {allowed_pipelines[i].name : i \in DOMAIN allowed_pipelines}
KeyList(d) == [i \in DOMAIN d |-> d[i].k]
Succeeded(op) == call.op = op /\ result.raised = "None"

\* C1: add_result with a pipeline whose name is not the name of an allowed
\* pipeline raises PipelineNotFoundError and leaves every tuner as it was.
C1_UnknownPipelineRaises ==
    [][(call'.op = "add_result" /\ call'.pipeline.name \notin AllowedNames)
       => (result'.raised = "PipelineNotFoundError" /\ tuners' = tuners)]_vars

\* an unknown pipeline was refused while the tuners held observations
C1_Witness ==
    /\ call.op = "add_result"
    /\ call.pipeline.name \notin AllowedNames
    /\ result.raised = "PipelineNotFoundError"
    /\ SumHistory(tuners) > 0

C3_AddResultRecordsOneObservation ==
    [][(call'.op = "add_result" /\ result'.raised = "None")
       => LET name == call'.pipeline.name
          IN /\ Has(tuners, name)
             /\ KeyList(tuners') = KeyList(tuners)
             /\ \A i \in DOMAIN tuners :
                    IF tuners[i].k = name
                    THEN /\ tuners'[i].v.history =
                                Append(tuners[i].v.history,
                                       <<call'.pipeline.parameters, call'.score>>)
                         /\ tuners'[i].v.ranges = tuners[i].v.ranges
                         /\ tuners'[i].v.random_seed = tuners[i].v.random_seed
                    ELSE tuners'[i] = tuners[i]
             /\ UNCHANGED <<pipeline_number, batch_number, best_pipeline_info,
                            selected_cols, text_in_ensembling>>]_vars

\* an observation was added to a tuner that held one, beside another tuner
\* with its own observation and a best pipeline on record
C3_Witness ==
    /\ Succeeded("add_result")
    /\ Len(Get(tuners, call.pipeline.name).history) = 2
    /\ \E i \in DOMAIN tuners :
           tuners[i].k # call.pipeline.name /\ Len(tuners[i].v.history) = 1
    /\ best_pipeline_info # <<>>

C5_TunersAreTheAllowedNames ==
    /\ [](/\ Keys(tuners) = AllowedNames
          /\ Len(tuners) = Cardinality(AllowedNames))
    /\ [][/\ KeyList(tuners') = KeyList(tuners)
          /\ \A i \in DOMAIN tuners :
                 /\ tuners'[i].v.ranges = tuners[i].v.ranges
                 /\ tuners'[i].v.random_seed = tuners[i].v.random_seed
                 /\ Len(tuners'[i].v.history) >= Len(tuners[i].v.history)
                 /\ SubSeq(tuners'[i].v.history, 1, Len(tuners[i].v.history))
                        = tuners[i].v.history]_vars

\* two allowed pipelines of one name share one tuner, which holds an
\* observation, and an unknown pipeline has just been refused
C5_Witness ==
    /\ Len(allowed_pipelines) > Len(tuners)
    /\ SumHistory(tuners) > 0
    /\ call.op = "add_result"
    /\ result.raised = "PipelineNotFoundError"

\* the items whose key is the name, an underscore and a rest, as (rest, value)
ClaimedFinalParameters(items, name) ==
    { <<SubSeq(items[i].k, Len(name) + 2, Len(items[i].k)), items[i].v>> :
        i \in {j \in DOMAIN items : StartsWith(items[j].k, name \o "_")} }

\* the pipeline whose tuner is kept: the last allowed one of its name
OwnsTuner(n) ==
    \A m \in DOMAIN allowed_pipelines :
        m > n => allowed_pipelines[m].name # allowed_pipelines[n].name

HasItem(d, key, val) == Has(d, key) /\ Get(d, key) = val

\* C7: the final estimator of the ensemble is given exactly the proposed
\* keys that begin with its name and an underscore, that prefix taken off
\* and the values kept; every other key is dropped.
C7_FinalEstimatorParameters ==
    Succeeded("_create_ensemble") =>
        LET items == call.proposed_parameters[1].v.items
            given == result.ret.final_estimator_parameters
        IN { <<given[i].k, given[i].v>> : i \in DOMAIN given }
               = ClaimedFinalParameters(items, result.ret.final_estimator.val)

\* C8 as stated: for an ENSEMBLE pipeline with ranges
\* {"A": {"x": range1, "y": {"y1": range2}}} the mapping given to its tuner
\* has the key "A_x" with range1 and the key "A_y_y1" with range2; the
\* ranges of any other pipeline are given to the tuner as they are.
C8_FlattenedAtTopLevel ==
    \A n \in DOMAIN allowed_pipelines :
        LET p == allowed_pipelines[n]
            effective == Get(tuners, p.name).ranges
        IN OwnsTuner(n) =>
           IF p.model_family # ENSEMBLE THEN effective = p.ranges
           ELSE \A a \in DOMAIN p.ranges :
                    LET A == p.ranges[a].k
                        sub == p.ranges[a].v.items
                    IN \A x \in DOMAIN sub :
                           IF sub[x].v.kind = "leaf"
                           THEN HasItem(effective, A \o "_" \o sub[x].k, sub[x].v)
                           ELSE \A y \in DOMAIN sub[x].v.items :
                                    HasItem(effective,
                                            A \o "_" \o sub[x].k \o "_" \o sub[x].v.items[y].k,
                                            sub[x].v.items[y].v)

\* effective is declared with its dict-valued parameters flattened one level
FlattenedComponent(declared, effective) ==
    LET Slots == { <<i, j>> \in (DOMAIN declared) \X (0..Len(effective)) :
                     IF declared[i].v.kind = "dict"
                     THEN j \in DOMAIN declared[i].v.items
                     ELSE j = 0 }
        KeyOf(s) == IF s[2] = 0 THEN declared[s[1]].k
                    ELSE declared[s[1]].k \o "_" \o declared[s[1]].v.items[s[2]].k
        ValueOf(s) == IF s[2] = 0 THEN declared[s[1]].v
                      ELSE declared[s[1]].v.items[s[2]].v
        Later(s, t) == s[1] > t[1] \/ (s[1] = t[1] /\ s[2] > t[2])
    IN /\ Keys(effective) = { KeyOf(s) : s \in Slots }
       /\ Len(effective) = Cardinality(Keys(effective))
       /\ \A s \in Slots :
              (\A t \in Slots : KeyOf(t) = KeyOf(s) => ~Later(t, s))
                  => Get(effective, KeyOf(s)) = ValueOf(s)

\* C8 as the constructor does it: the mapping given to the tuner of an
\* ENSEMBLE pipeline has the components of the pipeline's ranges, in their
\* order, and under each component one key for every parameter that is not
\* a dict, with its range, and one key "<parameter>_<key>" for every key of a
\* parameter that is a dict, with that key's value as it is, a dict
\* included; of two parameters that come to the same key the later one
\* gives the value.  The ranges of any other pipeline are given to the tuner
\* as they are.
C8_FlattenedInsideComponents ==
    \A n \in DOMAIN allowed_pipelines :
        LET p == allowed_pipelines[n]
            effective == Get(tuners, p.name).ranges
        IN OwnsTuner(n) =>
           IF p.model_family # ENSEMBLE THEN effective = p.ranges
           ELSE /\ KeyList(effective) = KeyList(p.ranges)
                /\ \A c \in DOMAIN p.ranges :
                       /\ effective[c].v.kind = "dict"
                       /\ FlattenedComponent(p.ranges[c].v.items,
                                             effective[c].v.items)

\* the tuner of the nested ensemble holds "y_y1" under "A", "y_y2" is still
\* a dict there, and in the other ensemble the later of two clashing
\* parameters gave the value
C8_Witness ==
    /\ Has(tuners, "Nested Ensemble")
    /\ Has(tuners, "Clash Ensemble")
    /\ LET A == Get(Get(tuners, "Nested Ensemble").ranges, "A").items
           SE == Get(Get(tuners, "Clash Ensemble").ranges, "SE").items
       IN /\ HasItem(A, "x", Leaf("range1"))
          /\ HasItem(A, "y_y1", Leaf("range2"))
          /\ Get(A, "y_y2").kind = "dict"
          /\ Get(SE, "a_x") = Leaf("r2")
          /\ Get(SE, "b_y") = Leaf("r4")

\* C9: the base pipeline made for an entry of _best_pipeline_info whose
\* pipeline has the Select Columns Transformer has that component's
\* columns equal to _selected_cols, and otherwise the parameters
\* _transform_parameters returned; the base pipeline made for any other
\* entry has the parameters _transform_parameters returned.
C9_ColumnsInjected ==
    [][(call'.op = "_create_ensemble" /\ result'.raised = "None")
       => \A i \in DOMAIN best_pipeline_info :
              LET entry == best_pipeline_info[i].v
                  returned == transform_parameters(entry.pipeline, entry.parameters,
                                                   call'.mode)
                  made == result'.ret.input_pipelines[i].parameters
              IN IF SelectColumns \in entry.pipeline.component_instances
                 THEN /\ Has(made, SelectColumns)
                      /\ HasItem(Get(made, SelectColumns).items, "columns",
                                 selected_cols)
                      /\ \A k \in Keys(returned) \ {SelectColumns} :
                             HasItem(made, k, Get(returned, k))
                 ELSE made = returned]_vars

\* an ensemble of two base pipelines, one with the component: the columns
\* it was made with are the selected ones, not the ones on record
C9_Witness ==
    /\ Succeeded("_create_ensemble")
    /\ Len(best_pipeline_info) = 2
    /\ selected_cols = Leaf("cols1")
    /\ \E i \in DOMAIN best_pipeline_info :
           /\ SelectColumns \in best_pipeline_info[i].v.pipeline.component_instances
           /\ Get(Get(best_pipeline_info[i].v.parameters, SelectColumns).items,
                  "columns") = Leaf("cols0")
           /\ Get(Get(result.ret.input_pipelines[i].parameters, SelectColumns).items,
                  "columns") = Leaf("cols1")

\* C10: the ensemble is given n_jobs 1 when text_in_ensembling is set,
\* whatever the object's n_jobs, and the object's n_jobs when it is not.
C10_EnsembleNJobs ==
    Succeeded("_create_ensemble") =>
        /\ text_in_ensembling => result.ret.n_jobs = 1
        /\ ~text_in_ensembling => result.ret.n_jobs = n_jobs

\* the flag set on an object made with n_jobs -1, and the ensemble serial
C10_Witness ==
    /\ Succeeded("_create_ensemble")
    /\ text_in_ensembling
    /\ n_jobs = -1
    /\ result.ret.n_jobs = 1

\* C11: _create_ensemble called while _best_pipeline_info is empty raises
\* IndexError at its first step: it makes no base pipeline, does not call
\* the ensemble factory, returns nothing, and leaves the tuners, the
\* counters and _best_pipeline_info as they were.
C11_EmptyBestRaises ==
    [][(call'.op = "_create_ensemble" /\ best_pipeline_info = <<>>)
       => /\ result'.raised = "IndexError"
          /\ result'.ret = None
          /\ result'.made = 0
          /\ ~result'.built
          /\ UNCHANGED <<tuners, pipeline_number, batch_number,
                         best_pipeline_info>>]_vars

\* the call was refused on an object whose tuners hold observations and
\* that has given out a batch
C11_Witness ==
    /\ call.op = "_create_ensemble"
    /\ best_pipeline_info = <<>>
    /\ result.raised = "IndexError"
    /\ result.made = 0
    /\ SumHistory(tuners) > 0
    /\ batch_number > 0

\* the base pipelines of an ensemble are new instances, one for each entry
\* of _best_pipeline_info in its order, none of them the entry's own
NewBasePipelines(best, ensemble) ==
    /\ Len(ensemble.input_pipelines) = Len(best)
    /\ \A i \in DOMAIN best :
           /\ ensemble.input_pipelines[i].name = best[i].v.pipeline.name
           /\ ~ensemble.input_pipelines[i].trained
           /\ ensemble.input_pipelines[i] # best[i].v.pipeline

\* C12: a successful _create_ensemble leaves every entry of
\* _best_pipeline_info (its pipeline, its parameters, its score), every
\* tuner and both counters as they were, the parameters of an entry with
\* the Select Columns Transformer included, and the base pipelines of the
\* ensemble are new instances, one for each entry in order.
C12_CreateEnsembleReadOnly ==
    [][(call'.op = "_create_ensemble" /\ result'.raised = "None")
       => /\ best_pipeline_info' = best_pipeline_info
          /\ UNCHANGED <<tuners, pipeline_number, batch_number>>
          /\ NewBasePipelines(best_pipeline_info, result'.ret)]_vars

\* what holds of every successful call: the pipelines, the scores, the
\* tuners and the counters are as they were and the base pipelines are
\* new; the stored parameters are as they were when _transform_parameters
\* returned a new dict, and otherwise are the parameters the base pipeline
\* was made with
CreateEnsembleWrites ==
    [][(call'.op = "_create_ensemble" /\ result'.raised = "None")
       => /\ UNCHANGED <<tuners, pipeline_number, batch_number>>
          /\ NewBasePipelines(best_pipeline_info, result'.ret)
          /\ KeyList(best_pipeline_info') = KeyList(best_pipeline_info)
          /\ \A i \in DOMAIN best_pipeline_info :
                 /\ best_pipeline_info'[i].v.pipeline = best_pipeline_info[i].v.pipeline
                 /\ best_pipeline_info'[i].v.score = best_pipeline_info[i].v.score
                 /\ best_pipeline_info'[i].v.parameters =
                        IF call'.mode = "same"
                        THEN result'.ret.input_pipelines[i].parameters
                        ELSE best_pipeline_info[i].v.parameters]_vars

====
